---- MODULE Spec2Model ----
(***************************************************************************)
(* A model of the RGA editor demo (tmastny/rga).  The component under      *)
(* study is RGAEditorDemo of src/unnamed/part_001, lines 616-1176: two     *)
(* replicas (user1Nodes, user2Nodes) edited through key presses, merged    *)
(* through applyOperation and connected by setTimeout deliveries.  The     *)
(* earlier variants of the same component (src/index.tsx and part_001      *)
(* lines 16-309) are modelled beside it where a property concerns them.    *)
(***************************************************************************)
EXTENDS Integers, Sequences, FiniteSets, Bags, TLC

VARIABLES
    user1Nodes,   \* useState<RGANode[]>: replica of user1
    user2Nodes,   \* useState<RGANode[]>: replica of user2
    cursorPos,    \* useState<{user1, user2}>
    isOffline,    \* useState(false)
    timers,       \* bag of setTimeout callbacks not yet fired
    now,          \* the last value Date.now() returned
    idCount,      \* number of ids Math.random() has produced so far
    inserted,     \* history: the nodes handleInsert has built
    delCount      \* history: number of tombstoned copies handleDelete has built

vars == <<user1Nodes, user2Nodes, cursorPos, isOffline, timers, now, idCount,
          inserted, delCount>>

----------------------------------------------------------------------------
\* Bounds of the model: the runs explored have at most MaxInserts inserts and
\* MaxDeletes deletes, at most MaxTimers timers pending at once, and clock
\* readings up to MaxClock.  The Wide bounds allow three inserts with distinct
\* clock readings, the Race bounds two deletes of the same node.
MaxInserts == 2
MaxDeletes == 1
MaxTimers == 2
MaxClock == 2
WideInserts == 3
WideDeletes == 1
WideTimers == 4
WideClock == 3
RaceInserts == 2
RaceDeletes == 2
RaceTimers == 4
RaceClock == 3
\* Runs of the offline watcher whose timers are pending at once.
ExampleBatches == 2

OfflineInserts == 1
OfflineDeletes == 1
OfflineTimers == 3
OfflineClock == 2

ReconnectInserts == 3
ReconnectDeletes == 1
ReconnectTimers == 2
ReconnectClock == 3
ReconnectBatches == 1
\* The runs of the component of src/index.tsx.
IndexInserts == 2
IndexDeletes == 1
IndexTimers == 4
IndexClock == 2
IndexBatches == 2
\* The operation sets the merge specifications draw.
TypingInserts == 2
TypingTimers == 4
TypingClock == 2
TypingBatches == 3

MergeInserts == 3
MergeDeletes == 1
MergeClock == 3
ApplyInserts == 2
ApplyDeletes == 1
ApplyClock == 2
DiscardInserts == 2
DiscardDeletes == 1
DiscardClock == 2

Merge == [inserts |-> MergeInserts, deletes |-> MergeDeletes, clock |-> MergeClock]
Apply == [inserts |-> ApplyInserts, deletes |-> ApplyDeletes, clock |-> ApplyClock]
Discard ==
    [inserts |-> DiscardInserts, deletes |-> DiscardDeletes, clock |-> DiscardClock]

Small == [inserts |-> MaxInserts, deletes |-> MaxDeletes, timers |-> MaxTimers,
          clock |-> MaxClock]
Wide == [inserts |-> WideInserts, deletes |-> WideDeletes, timers |-> WideTimers,
         clock |-> WideClock]
Index == [inserts |-> IndexInserts, deletes |-> IndexDeletes, timers |-> IndexTimers,
          clock |-> IndexClock, batches |-> IndexBatches]
Offline ==
    [inserts |-> OfflineInserts, deletes |-> OfflineDeletes,
     timers |-> OfflineTimers, clock |-> OfflineClock]

Typing ==
    [inserts |-> TypingInserts, timers |-> TypingTimers, clock |-> TypingClock,
     batches |-> TypingBatches]

Reconnect ==
    [inserts |-> ReconnectInserts, deletes |-> ReconnectDeletes,
     timers |-> ReconnectTimers, clock |-> ReconnectClock]

Race == [inserts |-> RaceInserts, deletes |-> RaceDeletes, timers |-> RaceTimers,
         clock |-> RaceClock]

Authors == {"user1", "user2"}
Chars == {"a"}

\* The id 'root' and the previousId null of the root node.
RootId == 0
NullId == 0 - 1

rootNode ==
    [id |-> RootId, value |-> "", timestamp |-> 0, previousId |-> NullId,
     removed |-> FALSE, author |-> "user1"]

Peer(author) == IF author = "user1" THEN "user2" ELSE "user1"

NodesOf(author) == IF author = "user1" THEN user1Nodes ELSE user2Nodes

----------------------------------------------------------------------------
\* Array helpers of JavaScript, on 1-based sequences.

\* nodes.findIndex(n => n.id === id) + 1: the first position holding id, 0 if none.
RECURSIVE FindFrom(_, _, _)
FindFrom(nodes, id, i) ==
    IF i > Len(nodes) THEN 0
    ELSE IF nodes[i].id = id THEN i
    ELSE FindFrom(nodes, id, i + 1)

FindIndex(nodes, id) == FindFrom(nodes, id, 1)

\* [...nodes.slice(0, k - 1), node, ...nodes.slice(k - 1)]
InsertAt(nodes, k, node) ==
    SubSeq(nodes, 1, k - 1) \o <<node>> \o SubSeq(nodes, k, Len(nodes))

IsVisible(n) == ~n.removed

\* A filter that drops the root as well.
visibleNodesWithoutRoot(nodes) ==
    SelectSeq(nodes, LAMBDA n : ~n.removed /\ n.id # RootId)

visibleNodes(nodes) == SelectSeq(nodes, IsVisible)

\* What renderEditor shows: one span per visible node, the root's being empty.
IsShown(n) == ~n.removed /\ n.id # RootId

visibleSequence(nodes) ==
    LET shown == SelectSeq(nodes, IsShown)
    IN  [i \in 1..Len(shown) |->
            [id |-> shown[i].id, value |-> shown[i].value, author |-> shown[i].author]]

\* position is the 0-based index of the code; vnodes[position] is vnodes[position + 1] here.
\* A lookup without the fallback to 'root': a position with no node gives no id.
findInsertPositionNoFallback(position, nodes) ==
    LET vnodes == visibleNodes(nodes)
    IN  IF position = 0 THEN RootId
        ELSE IF position + 1 <= Len(vnodes) THEN vnodes[position + 1].id
        ELSE NullId

findInsertPosition(position, nodes) ==
    LET vnodes == visibleNodes(nodes)
    IN  IF position = 0 THEN RootId
        ELSE IF position + 1 <= Len(vnodes) THEN vnodes[position + 1].id
        ELSE RootId

\* The while loop without the timestamp comparison: move past every sibling.
RECURSIVE SkipSiblingsAll(_, _, _)
SkipSiblingsAll(nodes, newNode, insertIndex) ==
    IF /\ insertIndex <= Len(nodes)
       /\ nodes[insertIndex].previousId = newNode.previousId
    THEN SkipSiblingsAll(nodes, newNode, insertIndex + 1)
    ELSE insertIndex

\* The while loop of applyOperation: move past siblings with earlier timestamps.
RECURSIVE SkipSiblings(_, _, _)
SkipSiblings(nodes, newNode, insertIndex) ==
    IF /\ insertIndex <= Len(nodes)
       /\ nodes[insertIndex].previousId = newNode.previousId
       /\ nodes[insertIndex].timestamp < newNode.timestamp
    THEN SkipSiblings(nodes, newNode, insertIndex + 1)
    ELSE insertIndex

\* applyOperation without the check for an existing node.
applyOperationNoExistingCheck(nodes, newNode) ==
    LET afterIndex == FindIndex(nodes, newNode.previousId)
    IN  IF afterIndex = 0
        THEN nodes
        ELSE InsertAt(nodes, SkipSiblings(nodes, newNode, afterIndex + 1), newNode)

\* applyOperation with > for >= in the last-write-wins comparison.
applyOperationEqualWins(nodes, newNode) ==
    LET existingIndex == FindIndex(nodes, newNode.id)
        afterIndex == FindIndex(nodes, newNode.previousId)
    IN  IF existingIndex # 0
        THEN IF nodes[existingIndex].timestamp > newNode.timestamp
             THEN nodes
             ELSE [nodes EXCEPT ![existingIndex] = newNode]
        ELSE IF afterIndex = 0
             THEN nodes
             ELSE InsertAt(nodes, SkipSiblings(nodes, newNode, afterIndex + 1), newNode)

\* applyOperation that never replaces a node it holds.
applyOperationKeepExisting(nodes, newNode) ==
    LET existingIndex == FindIndex(nodes, newNode.id)
        afterIndex == FindIndex(nodes, newNode.previousId)
    IN  IF existingIndex # 0
        THEN nodes
        ELSE IF afterIndex = 0
             THEN nodes
             ELSE InsertAt(nodes, SkipSiblings(nodes, newNode, afterIndex + 1), newNode)

\* applyOperation without the return for a missing predecessor: findIndex gives
\* -1 and the node goes to the front of the list.
applyOperationNoPredecessorCheck(nodes, newNode) ==
    LET existingIndex == FindIndex(nodes, newNode.id)
        afterIndex == FindIndex(nodes, newNode.previousId)
    IN  IF existingIndex # 0
        THEN IF nodes[existingIndex].timestamp >= newNode.timestamp
             THEN nodes
             ELSE [nodes EXCEPT ![existingIndex] = newNode]
        ELSE InsertAt(nodes, SkipSiblings(nodes, newNode, afterIndex + 1), newNode)

\* A merge in which an incoming tombstone replaces the node whatever the
\* timestamps.
applyOperationTombstoneWins(nodes, newNode) ==
    LET existingIndex == FindIndex(nodes, newNode.id)
        afterIndex == FindIndex(nodes, newNode.previousId)
    IN  IF existingIndex # 0
        THEN IF nodes[existingIndex].timestamp >= newNode.timestamp /\ ~newNode.removed
             THEN nodes
             ELSE [nodes EXCEPT ![existingIndex] = newNode]
        ELSE IF afterIndex = 0
             THEN nodes
             ELSE InsertAt(nodes, SkipSiblings(nodes, newNode, afterIndex + 1), newNode)

\* A merge that takes a deleted node out of the list instead of flagging it.
applyOperationDropsDeleted(nodes, newNode) ==
    LET existingIndex == FindIndex(nodes, newNode.id)
        afterIndex == FindIndex(nodes, newNode.previousId)
    IN  IF existingIndex # 0
        THEN IF nodes[existingIndex].timestamp >= newNode.timestamp
             THEN nodes
             ELSE IF newNode.removed
                  THEN SubSeq(nodes, 1, existingIndex - 1)
                          \o SubSeq(nodes, existingIndex + 1, Len(nodes))
                  ELSE [nodes EXCEPT ![existingIndex] = newNode]
        ELSE IF afterIndex = 0
             THEN nodes
             ELSE InsertAt(nodes, SkipSiblings(nodes, newNode, afterIndex + 1), newNode)

\* A merge that looks for the predecessor among the nodes not removed: a
\* tombstone is no predecessor.
applyOperationLivePredecessor(nodes, newNode) ==
    LET existingIndex == FindIndex(nodes, newNode.id)
        afterIndex == FindIndex(nodes, newNode.previousId)
    IN  IF existingIndex # 0
        THEN IF nodes[existingIndex].timestamp >= newNode.timestamp
             THEN nodes
             ELSE [nodes EXCEPT ![existingIndex] = newNode]
        ELSE IF afterIndex = 0 \/ nodes[afterIndex].removed
             THEN nodes
             ELSE InsertAt(nodes, SkipSiblings(nodes, newNode, afterIndex + 1), newNode)

applyOperation(nodes, newNode) ==
    LET existingIndex == FindIndex(nodes, newNode.id)
        afterIndex == FindIndex(nodes, newNode.previousId)
    IN  IF existingIndex # 0
        THEN IF nodes[existingIndex].timestamp >= newNode.timestamp
             THEN nodes
             ELSE [nodes EXCEPT ![existingIndex] = newNode]
        ELSE IF afterIndex = 0
             THEN nodes
             ELSE InsertAt(nodes, SkipSiblings(nodes, newNode, afterIndex + 1), newNode)

\* applyOperation of src/index.tsx: the predecessor is looked up first and the new
\* node goes directly after it.
applyOperationIndex(nodes, newNode) ==
    LET afterIndex == FindIndex(nodes, newNode.previousId)
        existingIndex == FindIndex(nodes, newNode.id)
    IN  IF afterIndex = 0
        THEN nodes
        ELSE IF existingIndex # 0
             THEN IF nodes[existingIndex].timestamp >= newNode.timestamp
                  THEN nodes
                  ELSE [nodes EXCEPT ![existingIndex] = newNode]
             ELSE InsertAt(nodes, afterIndex + 1, newNode)

\* The first variant of the component (part_001, lines 16-309).
findInsertPositionV1(position, nodes) ==
    LET vnodes == visibleNodes(nodes)
    IN  IF position > 0 /\ position <= Len(vnodes) THEN vnodes[position].id
        ELSE RootId

applyOperationV1(nodes, newNode) ==
    LET insertIndex == FindIndex(nodes, newNode.previousId) + 1
        existingIndex == FindIndex(nodes, newNode.id)
    IN  IF insertIndex = 1
        THEN nodes
        ELSE IF existingIndex # 0
             THEN IF nodes[existingIndex].timestamp >= newNode.timestamp
                  THEN nodes
                  ELSE [nodes EXCEPT ![existingIndex] = newNode]
             ELSE InsertAt(nodes, insertIndex, newNode)

\* nodes.map(n => n.id === node.id ? node : n)
ReplaceById(nodes, node) ==
    [i \in 1..Len(nodes) |-> IF nodes[i].id = node.id THEN node ELSE nodes[i]]

----------------------------------------------------------------------------
\* Timers: a callback is the replica it writes, the node it carries and what it runs.

\* batch and seq order the timers one run of the offline watcher sets: they have
\* the same delay and fire in the order they were set.  A timer set by an edit
\* has batch 0 and is ordered with no other, the delay being adjustable.
Callback(to, node, kind) ==
    [to |-> to, node |-> node, kind |-> kind, batch |-> 0, seq |-> 0]

ResyncCallback(to, node, batch, seq) ==
    [to |-> to, node |-> node, kind |-> "apply", batch |-> batch, seq |-> seq]

\* No timer set earlier with the same delay is still pending.
Ready(cb) ==
    \/ cb.batch = 0
    \/ \A other \in BagToSet(timers) :
          other.batch = cb.batch => other.seq >= cb.seq

RunCallback(cb, nodes) ==
    CASE cb.kind = "apply" -> applyOperation(nodes, cb.node)
      [] cb.kind = "applyV1" -> applyOperationV1(nodes, cb.node)
      [] cb.kind = "applyIndex" -> applyOperationIndex(nodes, cb.node)
      [] OTHER -> ReplaceById(nodes, cb.node)

\* updateNodes without the offline test.
RemoteUpdateAlways(author, node) ==
    SetToBag({Callback(Peer(author), node, "apply")})

\* The remote half of updateNodes: a timer unless offline.
RemoteUpdate(author, node) ==
    IF ~isOffline THEN SetToBag({Callback(Peer(author), node, "apply")})
    ELSE EmptyBag

\* The local half of updateNodes.
LocalUpdate(author, node, immediateUpdate) ==
    IF immediateUpdate THEN applyOperation(NodesOf(author), node)
    ELSE NodesOf(author)

SetNodes(author, nodes) ==
    /\ user1Nodes' = IF author = "user1" THEN nodes ELSE user1Nodes
    /\ user2Nodes' = IF author = "user2" THEN nodes ELSE user2Nodes

\* Date.now(): not before the last reading.
Clock(lim) == now..(IF now < lim.clock THEN now + 1 ELSE now)

----------------------------------------------------------------------------
Init ==
    /\ user1Nodes = <<rootNode>>
    /\ user2Nodes = <<rootNode>>
    /\ cursorPos = [a \in Authors |-> 0]
    /\ isOffline = FALSE
    /\ timers = EmptyBag
    /\ now = 1
    /\ idCount = 0
    /\ inserted = {}
    /\ delCount = 0

handleInsert(value, position, author, t) ==
    LET newNode == [id |-> idCount + 1, value |-> value, timestamp |-> t,
                    previousId |-> findInsertPosition(position, NodesOf(author)),
                    removed |-> FALSE, author |-> author]
    IN  /\ SetNodes(author, LocalUpdate(author, newNode, TRUE))
        /\ timers' = timers (+) RemoteUpdate(author, newNode)
        /\ cursorPos' = [cursorPos EXCEPT ![author] = @ + 1]
        /\ idCount' = idCount + 1
        /\ inserted' = inserted \cup {newNode}
        /\ now' = t
        /\ UNCHANGED <<isOffline, delCount>>

handleDelete(position, author, t) ==
    LET vnodes == visibleNodes(NodesOf(author))
    IN  IF position + 2 > Len(vnodes)
        THEN UNCHANGED vars
        ELSE LET targetNode == vnodes[position + 2]
                 updatedNode == [targetNode EXCEPT !.removed = TRUE, !.timestamp = t]
             IN  /\ SetNodes(author, LocalUpdate(author, updatedNode, TRUE))
                 /\ timers' = (timers (+) RemoteUpdate(author, updatedNode))
                       (+) (IF ~isOffline
                            THEN SetToBag({Callback(Peer(author), updatedNode, "map")})
                            ELSE EmptyBag)
                 /\ cursorPos' = [cursorPos EXCEPT ![author] = IF @ > 0 THEN @ - 1 ELSE 0]
                 /\ delCount' = delCount + 1
                 /\ now' = t
                 /\ UNCHANGED <<isOffline, idCount, inserted>>

\* The positions a caller can pass: handleKeyDown passes cursorPos[author] (a
\* character key) or cursorPos[author] - 1 (Backspace, cursor > 0), and a click
\* sets the cursor to any index up to the number of rendered spans; every index
\* past the end behaves alike.
Positions(author) == 0..Len(visibleNodes(NodesOf(author)))

Insert(author, lim) ==
    /\ idCount < lim.inserts
    /\ BagCardinality(timers) + 1 <= lim.timers
    /\ \E value \in Chars, position \in Positions(author), t \in Clock(lim) :
          handleInsert(value, position, author, t)

Delete(author, lim) ==
    /\ delCount < lim.deletes
    /\ BagCardinality(timers) + 2 <= lim.timers
    /\ \E position \in Positions(author), t \in Clock(lim) :
          handleDelete(position, author, t)

TimerFires(cb) ==
    /\ BagIn(cb, timers)
    /\ Ready(cb)
    /\ timers' = timers (-) SetToBag({cb})
    /\ SetNodes(cb.to, RunCallback(cb, NodesOf(cb.to)))
    /\ UNCHANGED <<cursorPos, isOffline, now, idCount, inserted, delCount>>

Edits(lim) ==
    \/ \E author \in Authors : Insert(author, lim)
    \/ \E author \in Authors : Delete(author, lim)
    \/ \E cb \in BagToSet(timers) : TimerFires(cb)

Next == Edits(Small)

NextWide == Edits(Wide)

NextRace == Edits(Race)

Spec == Init /\ [][Next]_vars

SpecWide == Init /\ [][NextWide]_vars

SpecRace == Init /\ [][NextRace]_vars

----------------------------------------------------------------------------
(***************************************************************************)
(* The first variant of the component (part_001, lines 16-309): no offline *)
(* mode, findInsertPosition and handleDelete index the visible nodes       *)
(* without skipping the root, and a delete is written with map on both     *)
(* sides.  Its key handler is modelled with the cursor.                    *)
(***************************************************************************)
handleInsertV1(value, position, author, t) ==
    LET newNode == [id |-> idCount + 1, value |-> value, timestamp |-> t,
                    previousId |-> findInsertPositionV1(position, NodesOf(author)),
                    removed |-> FALSE, author |-> author]
    IN  /\ SetNodes(author, applyOperationV1(NodesOf(author), newNode))
        /\ timers' = timers (+) SetToBag({Callback(Peer(author), newNode, "applyV1")})
        /\ cursorPos' = [cursorPos EXCEPT ![author] = @ + 1]
        /\ idCount' = idCount + 1
        /\ inserted' = inserted \cup {newNode}
        /\ now' = t
        /\ UNCHANGED <<isOffline, delCount>>

handleDeleteV1(position, author, t) ==
    LET vnodes == visibleNodes(NodesOf(author))
    IN  IF position + 1 > Len(vnodes)
        THEN UNCHANGED vars
        ELSE LET targetNode == vnodes[position + 1]
                 updatedNode == [targetNode EXCEPT !.removed = TRUE, !.timestamp = t]
             IN  /\ SetNodes(author, ReplaceById(NodesOf(author), updatedNode))
                 /\ timers' = timers (+) SetToBag({Callback(Peer(author), updatedNode, "map")})
                 /\ cursorPos' = [cursorPos EXCEPT ![author] = IF @ > 0 THEN @ - 1 ELSE 0]
                 /\ delCount' = delCount + 1
                 /\ now' = t
                 /\ UNCHANGED <<isOffline, idCount, inserted>>

\* handleKeyDown, one action per branch.
KeyBackspaceV1(author, lim) ==
    /\ cursorPos[author] > 0
    /\ delCount < lim.deletes
    /\ BagCardinality(timers) + 1 <= lim.timers
    /\ \E t \in Clock(lim) : handleDeleteV1(cursorPos[author] - 1, author, t)

KeyArrowLeft(author) ==
    /\ cursorPos' = [cursorPos EXCEPT ![author] = IF @ > 0 THEN @ - 1 ELSE 0]
    /\ UNCHANGED <<user1Nodes, user2Nodes, isOffline, timers, now, idCount,
                   inserted, delCount>>

KeyArrowRight(author) ==
    LET n == Len(visibleNodes(NodesOf(author)))
    IN  /\ cursorPos' = [cursorPos EXCEPT ![author] = IF @ + 1 < n THEN @ + 1 ELSE n]
        /\ UNCHANGED <<user1Nodes, user2Nodes, isOffline, timers, now, idCount,
                       inserted, delCount>>

KeyCharV1(author, lim) ==
    /\ idCount < lim.inserts
    /\ BagCardinality(timers) + 1 <= lim.timers
    /\ \E value \in Chars, t \in Clock(lim) :
          handleInsertV1(value, cursorPos[author], author, t)

NextV1 ==
    \/ \E author \in Authors : KeyBackspaceV1(author, Small)
    \/ \E author \in Authors : KeyArrowLeft(author)
    \/ \E author \in Authors : KeyArrowRight(author)
    \/ \E author \in Authors : KeyCharV1(author, Small)
    \/ \E cb \in BagToSet(timers) : TimerFires(cb)

SpecV1 == Init /\ [][NextV1]_vars

----------------------------------------------------------------------------
(***************************************************************************)
(* The offline switch and the examples (part_001, lines 335-614, 943-958,  *)
(* 1022 and 1133-1139).  The ids of the example nodes are numbered from    *)
(* 101 (e2l2, vsmg, nvb8; h1, e1, l1, l2, o1, x1; a1, b1, c1, d1, and e1   *)
(* again, the id being used by two examples); the timestamps of the first  *)
(* example are written less 1737859284000.                                 *)
(***************************************************************************)
ExampleNode(id, value, timestamp, previousId, removed, author) ==
    [id |-> id, value |-> value, timestamp |-> timestamp, previousId |-> previousId,
     removed |-> removed, author |-> author]

examples ==
    << [user1Text |-> "h1", user2Text |-> "h2",
        user1Nodes |-> << rootNode,
            ExampleNode(101, "h", 865, RootId, FALSE, "user1"),
            ExampleNode(102, "1", 11511, 101, FALSE, "user1") >>,
        user2Nodes |-> << rootNode,
            ExampleNode(101, "h", 865, RootId, FALSE, "user1"),
            ExampleNode(103, "2", 15411, 101, FALSE, "user2") >>],
       [user1Text |-> "", user2Text |-> "helXlo",
        user1Nodes |-> << rootNode,
            ExampleNode(104, "h", 1006, RootId, TRUE, "user1"),
            ExampleNode(105, "e", 1007, 104, TRUE, "user1"),
            ExampleNode(106, "l", 1008, 105, TRUE, "user1"),
            ExampleNode(107, "l", 1009, 106, TRUE, "user1"),
            ExampleNode(108, "o", 1010, 107, TRUE, "user1") >>,
        user2Nodes |-> << rootNode,
            ExampleNode(104, "h", 1000, RootId, FALSE, "user1"),
            ExampleNode(105, "e", 1001, 104, FALSE, "user1"),
            ExampleNode(106, "l", 1002, 105, FALSE, "user1"),
            ExampleNode(109, "X", 1005, 106, FALSE, "user2"),
            ExampleNode(107, "l", 1003, 106, FALSE, "user1"),
            ExampleNode(108, "o", 1004, 107, FALSE, "user1") >>],
       [user1Text |-> "ace", user2Text |-> "de",
        user1Nodes |-> << rootNode,
            ExampleNode(110, "a", 1000, RootId, FALSE, "user1"),
            ExampleNode(111, "b", 1006, 110, TRUE, "user1"),
            ExampleNode(112, "c", 1002, 111, FALSE, "user1"),
            ExampleNode(113, "d", 1007, 112, TRUE, "user1"),
            ExampleNode(105, "e", 1004, 113, FALSE, "user1") >>,
        user2Nodes |-> << rootNode,
            ExampleNode(110, "a", 1008, RootId, TRUE, "user2"),
            ExampleNode(111, "b", 1001, 110, FALSE, "user1"),
            ExampleNode(112, "c", 1009, 111, TRUE, "user2"),
            ExampleNode(113, "d", 1003, 112, FALSE, "user1"),
            ExampleNode(105, "e", 1004, 113, FALSE, "user1") >>] >>

\* The smallest batch number no pending timer has.
FreeBatch ==
    CHOOSE b \in 1..(BagCardinality(timers) + 1) :
        /\ \A cb \in BagToSet(timers) : cb.batch # b
        /\ \A c \in 1..(b - 1) : \E cb \in BagToSet(timers) : cb.batch = c

\* A watcher that resends the visible nodes only.
ResyncVisible(batch) ==
    SetToBag({ResyncCallback("user2", user1Nodes[i], batch, i) :
                 i \in {j \in 1..Len(user1Nodes) : ~user1Nodes[j].removed}}
             \cup {ResyncCallback("user1", user2Nodes[i], batch, Len(user1Nodes) + i) :
                      i \in {j \in 1..Len(user2Nodes) : ~user2Nodes[j].removed}})

\* The offline watcher once isOffline has become false: updateNodes(author,
\* node, false) for every node of user1Nodes, then of user2Nodes.
Resync(batch) ==
    SetToBag({ResyncCallback("user2", user1Nodes[i], batch, i) :
                 i \in 1..Len(user1Nodes)}
             \cup {ResyncCallback("user1", user2Nodes[i], batch, Len(user1Nodes) + i) :
                      i \in 1..Len(user2Nodes)})

\* A checkbox that clears the pending timers when it takes the channel offline.
GoOfflineCancelling ==
    /\ ~isOffline
    /\ isOffline' = TRUE
    /\ timers' = EmptyBag
    /\ UNCHANGED <<user1Nodes, user2Nodes, cursorPos, now, idCount, inserted,
                   delCount>>

\* The Network checkbox: setIsOffline(!e.target.checked).
GoOffline ==
    /\ ~isOffline
    /\ isOffline' = TRUE
    /\ UNCHANGED <<user1Nodes, user2Nodes, cursorPos, timers, now, idCount,
                   inserted, delCount>>

GoOnline(batches) ==
    /\ isOffline
    /\ FreeBatch <= batches
    /\ isOffline' = FALSE
    /\ timers' = timers (+) Resync(FreeBatch)
    /\ UNCHANGED <<user1Nodes, user2Nodes, cursorPos, now, idCount, inserted,
                   delCount>>

\* The state Load Example leaves when clicked on the mounted component.
InitExamples ==
    \E k \in DOMAIN examples :
        /\ isOffline = TRUE
        /\ user1Nodes = examples[k].user1Nodes
        /\ user2Nodes = examples[k].user2Nodes
        /\ cursorPos = [user1 |-> Len(examples[k].user1Text) + 1,
                        user2 |-> Len(examples[k].user2Text) + 1]
        /\ timers = EmptyBag
        /\ now = 1
        /\ idCount = 0
        /\ inserted = {}
        /\ delCount = 0

NextExamples ==
    \/ GoOffline
    \/ GoOnline(ExampleBatches)
    \/ \E cb \in BagToSet(timers) : TimerFires(cb)

SpecExamples == InitExamples /\ [][NextExamples]_vars

\* The component with the Network checkbox in use; the box is unticked while
\* the timers the watcher sets fit under the cap on pending timers.
GoOnlineCapped(lim) ==
    /\ BagCardinality(timers) + Len(user1Nodes) + Len(user2Nodes) <= lim.timers
    /\ GoOnline(lim.timers)

NextOffline ==
    \/ Edits(Offline)
    \/ GoOffline
    \/ GoOnlineCapped(Offline)

SpecOffline == Init /\ [][NextOffline]_vars

\* Rounds of offline editing: the box is ticked once the replicas hold the same
\* list and nothing is in flight, both users edit while offline, and the box is
\* unticked again.
GoOfflineSettled ==
    /\ timers = EmptyBag
    /\ user1Nodes = user2Nodes
    /\ GoOffline

OfflineEdits(lim) ==
    /\ isOffline
    /\ \/ \E author \in Authors : Insert(author, lim)
       \/ \E author \in Authors : Delete(author, lim)

NextReconnect ==
    \/ GoOfflineSettled
    \/ OfflineEdits(Reconnect)
    \/ GoOnline(ReconnectBatches)
    \/ \E cb \in BagToSet(timers) : TimerFires(cb)

SpecReconnect == Init /\ [][NextReconnect]_vars

----------------------------------------------------------------------------
(***************************************************************************)
(* The component of src/index.tsx.  Its applyOperation puts a new node     *)
(* directly after its predecessor, its handleDelete sets no second timer,  *)
(* and its offline watcher depends on isOffline, user1Nodes and            *)
(* user2Nodes: while online it runs after every render in which a node     *)
(* list is a new array, and sends every node of both lists again.          *)
(***************************************************************************)
ResyncIndex(nodes1, nodes2, batch) ==
    SetToBag({[ResyncCallback("user2", nodes1[i], batch, i) EXCEPT !.kind = "applyIndex"] :
                 i \in 1..Len(nodes1)}
             \cup {[ResyncCallback("user1", nodes2[i], batch, Len(nodes1) + i)
                       EXCEPT !.kind = "applyIndex"] : i \in 1..Len(nodes2)})

\* The watcher after a render: it runs when a dependency changed and sends
\* when online.
EffectIndex(changed, offline, nodes1, nodes2) ==
    IF changed /\ ~offline THEN ResyncIndex(nodes1, nodes2, FreeBatch) ELSE EmptyBag

\* The lists after `author` has applied `node` to its own.
NodesAfter(author, node, who) ==
    IF who = author THEN applyOperationIndex(NodesOf(author), node) ELSE NodesOf(who)

updateNodesIndex(author, node, batches) ==
    LET nodes1 == NodesAfter(author, node, "user1")
        nodes2 == NodesAfter(author, node, "user2")
        changed == nodes1 # user1Nodes \/ nodes2 # user2Nodes
    IN  /\ (changed /\ ~isOffline) => FreeBatch <= batches
        /\ user1Nodes' = nodes1
        /\ user2Nodes' = nodes2
        /\ timers' = (timers (+) (IF ~isOffline
                                  THEN SetToBag({Callback(Peer(author), node, "applyIndex")})
                                  ELSE EmptyBag))
                      (+) EffectIndex(changed, isOffline, nodes1, nodes2)

handleInsertIndex(value, position, author, t, batches) ==
    LET newNode == [id |-> idCount + 1, value |-> value, timestamp |-> t,
                    previousId |-> findInsertPosition(position, NodesOf(author)),
                    removed |-> FALSE, author |-> author]
    IN  /\ updateNodesIndex(author, newNode, batches)
        /\ cursorPos' = [cursorPos EXCEPT ![author] = @ + 1]
        /\ idCount' = idCount + 1
        /\ inserted' = inserted \cup {newNode}
        /\ now' = t
        /\ UNCHANGED <<isOffline, delCount>>

handleDeleteIndex(position, author, t, batches) ==
    LET vnodes == visibleNodes(NodesOf(author))
    IN  IF position + 2 > Len(vnodes)
        THEN UNCHANGED vars
        ELSE LET targetNode == vnodes[position + 2]
                 updatedNode == [targetNode EXCEPT !.removed = TRUE, !.timestamp = t]
             IN  /\ updateNodesIndex(author, updatedNode, batches)
                 /\ cursorPos' = [cursorPos EXCEPT ![author] = IF @ > 0 THEN @ - 1 ELSE 0]
                 /\ delCount' = delCount + 1
                 /\ now' = t
                 /\ UNCHANGED <<isOffline, idCount, inserted>>

InsertIndex(author, lim) ==
    /\ idCount < lim.inserts
    /\ BagCardinality(timers) + 1 <= lim.timers
    /\ \E value \in Chars, position \in Positions(author), t \in Clock(lim) :
          handleInsertIndex(value, position, author, t, lim.batches)

DeleteIndex(author, lim) ==
    /\ delCount < lim.deletes
    /\ BagCardinality(timers) + 1 <= lim.timers
    /\ \E position \in Positions(author), t \in Clock(lim) :
          handleDeleteIndex(position, author, t, lim.batches)

\* A timer fires: the peer applies the node, and the watcher runs if that gave
\* the peer a new array.
TimerFiresIndex(cb, batches) ==
    LET nodes == RunCallback(cb, NodesOf(cb.to))
        nodes1 == IF cb.to = "user1" THEN nodes ELSE user1Nodes
        nodes2 == IF cb.to = "user2" THEN nodes ELSE user2Nodes
        changed == nodes # NodesOf(cb.to)
    IN  /\ BagIn(cb, timers)
        /\ Ready(cb)
        /\ (changed /\ ~isOffline) => FreeBatch <= batches
        /\ user1Nodes' = nodes1
        /\ user2Nodes' = nodes2
        /\ timers' = (timers (-) SetToBag({cb}))
                      (+) EffectIndex(changed, isOffline, nodes1, nodes2)
        /\ UNCHANGED <<cursorPos, isOffline, now, idCount, inserted, delCount>>

\* The Offline Mode checkbox: setIsOffline(e.target.checked).
GoOnlineIndex(batches) ==
    /\ isOffline
    /\ FreeBatch <= batches
    /\ isOffline' = FALSE
    /\ timers' = timers (+) EffectIndex(TRUE, FALSE, user1Nodes, user2Nodes)
    /\ UNCHANGED <<user1Nodes, user2Nodes, cursorPos, now, idCount, inserted,
                   delCount>>

\* After the mount effect has set both lists to [root] the watcher has run once.
InitIndex ==
    /\ user1Nodes = <<rootNode>>
    /\ user2Nodes = <<rootNode>>
    /\ cursorPos = [a \in Authors |-> 0]
    /\ isOffline = FALSE
    /\ timers = ResyncIndex(<<rootNode>>, <<rootNode>>, 1)
    /\ now = 1
    /\ idCount = 0
    /\ inserted = {}
    /\ delCount = 0

NextIndex ==
    \/ \E author \in Authors : InsertIndex(author, Index)
    \/ \E author \in Authors : DeleteIndex(author, Index)
    \/ \E cb \in BagToSet(timers) : TimerFiresIndex(cb, IndexBatches)

SpecIndex == InitIndex /\ [][NextIndex]_vars

\* The same component while both users only type; more runs of the watcher can
\* be in flight.
NextIndexTyping ==
    \/ \E author \in Authors : InsertIndex(author, Typing)
    \/ \E cb \in BagToSet(timers) : TimerFiresIndex(cb, TypingBatches)

SpecIndexTyping == InitIndex /\ [][NextIndexTyping]_vars

\* The same component holding the lists of the first two examples, which it
\* reaches by typing: hello typed and delivered, then offline user1 deleting
\* the five letters and user2 typing X after the first l (h typed and
\* delivered, then offline user1 typing 1 and user2 typing 2 after it).
InitIndexExamples ==
    \E k \in 1..2 :
        /\ isOffline = TRUE
        /\ user1Nodes = examples[k].user1Nodes
        /\ user2Nodes = examples[k].user2Nodes
        /\ cursorPos = [user1 |-> Len(examples[k].user1Text),
                        user2 |-> Len(examples[k].user2Text)]
        /\ timers = EmptyBag
        /\ now = 1
        /\ idCount = 0
        /\ inserted = {}
        /\ delCount = 0

NextIndexExamples ==
    \/ GoOffline
    \/ GoOnlineIndex(IndexBatches)
    \/ \E cb \in BagToSet(timers) : TimerFiresIndex(cb, IndexBatches)

SpecIndexExamples == InitIndexExamples /\ [][NextIndexExamples]_vars

----------------------------------------------------------------------------
(***************************************************************************)
(* The merge engine alone.  A finite set of operations the replicas can    *)
(* generate is drawn: inserts 1..n in the order they were built (each after *)
(* a node built before it, timestamps not decreasing) and tombstoned copies *)
(* of some of them.  user2Nodes has applied the set once, in the order it  *)
(* was built; user1Nodes receives it through applyOperation in any order    *)
(* and with any duplication.                                                *)
(***************************************************************************)
AuthorOf(id) == IF id % 2 = 1 THEN "user1" ELSE "user2"

InsertOps(n, lim) ==
    {f \in [1..n -> [id : 1..n, value : Chars, timestamp : 1..lim.clock,
                     previousId : 0..(n - 1), removed : {FALSE}, author : Authors]] :
        \A i \in 1..n :
            /\ f[i].id = i
            /\ f[i].previousId < i
            /\ f[i].author = AuthorOf(i)
            /\ i > 1 => f[i - 1].timestamp <= f[i].timestamp}

TombstoneOps(f, lim) ==
    {[f[i] EXCEPT !.removed = TRUE, !.timestamp = t] :
        i \in DOMAIN f, t \in 1..lim.clock}

DeleteSets(f, lim) ==
    {D \in SUBSET TombstoneOps(f, lim) :
        /\ Cardinality(D) <= lim.deletes
        /\ \A d \in D : d.timestamp >= f[d.id].timestamp}

\* The operations of D in a fixed order: by timestamp, then by id.
RECURSIVE InOrder(_)
InOrder(D) ==
    IF D = {} THEN <<>>
    ELSE LET d == CHOOSE x \in D : \A y \in D :
                      \/ x.timestamp < y.timestamp
                      \/ x.timestamp = y.timestamp /\ x.id <= y.id
         IN  <<d>> \o InOrder(D \ {d})

RECURSIVE ApplyAll(_, _)
ApplyAll(nodes, ops) ==
    IF ops = <<>> THEN nodes
    ELSE ApplyAll(applyOperation(nodes, Head(ops)), Tail(ops))

OperationSets(lim) ==
    \E n \in 0..lim.inserts :
        \E f \in InsertOps(n, lim) :
            \E D \in DeleteSets(f, lim) :
                /\ user1Nodes = <<rootNode>>
                /\ user2Nodes = ApplyAll(<<rootNode>>, f \o InOrder(D))
                /\ timers = SetToBag({Callback("user1", op, "apply") :
                                        op \in {f[i] : i \in 1..n} \cup D})
                /\ inserted = {f[i] : i \in 1..n}
                /\ idCount = n
                /\ delCount = Cardinality(D)
                /\ now = lim.clock
                /\ cursorPos = [a \in Authors |-> 0]
                /\ isOffline = FALSE

InitMerge == OperationSets(Merge)

InitApply == OperationSets(Apply)

\* A delivery that will be repeated: the callback runs and stays pending.
Redeliver(cb) ==
    /\ BagIn(cb, timers)
    /\ SetNodes(cb.to, RunCallback(cb, NodesOf(cb.to)))
    /\ UNCHANGED <<cursorPos, isOffline, timers, now, idCount, inserted, delCount>>

NextMerge ==
    \/ \E cb \in BagToSet(timers) : TimerFires(cb)
    \/ \E cb \in BagToSet(timers) : Redeliver(cb)

SpecMerge == InitMerge /\ [][NextMerge]_vars

\* The same operation sets, every operation deliverable again and again.
NextApply == \E cb \in BagToSet(timers) : Redeliver(cb)

SpecApply == InitApply /\ [][NextApply]_vars

\* Operation sets of their own size, every operation deliverable again and
\* again, for the branches of applyOperation that leave the list alone.
InitDiscard == OperationSets(Discard)

NextDiscard == \E cb \in BagToSet(timers) : Redeliver(cb)

SpecDiscard == InitDiscard /\ [][NextDiscard]_vars

----------------------------------------------------------------------------
\* Every insert and every delete written so far read a different value of the
\* clock: no two versions of nodes in the lists, the timers or the insert
\* history have the same timestamp unless they are the same version.
Versions ==
    {<<n.id, n.removed, n.timestamp>> :
        n \in {user1Nodes[i] : i \in 1..Len(user1Nodes)}
                \cup {user2Nodes[i] : i \in 1..Len(user2Nodes)}
                \cup {cb.node : cb \in BagToSet(timers)}
                \cup inserted}

DistinctReadings == \A v, w \in Versions : v[3] = w[3] => v = w

\* The operations the properties of applyOperation range over: every node value
\* over the ids in use, one unused id, and the timestamps in use.
MergeOps ==
    [id : 0..(ApplyInserts + 1), value : Chars, timestamp : 0..ApplyClock,
     previousId : NullId..(ApplyInserts + 1), removed : BOOLEAN, author : {"user1"}]

Ids(nodes) == {nodes[i].id : i \in 1..Len(nodes)}

\* C1: once the whole operation set has been applied to both replicas (to
\* user1Nodes in any order and with any duplication), the two replicas show the
\* same visible sequence (checked for operation sets whose timestamps all
\* differ, delivered so that both replicas hold the same nodes: no operation
\* was dropped for a missing predecessor).
Convergence ==
    (/\ timers = EmptyBag
     /\ DistinctReadings
     /\ {user1Nodes[i] : i \in 1..Len(user1Nodes)}
           = {user2Nodes[i] : i \in 1..Len(user2Nodes)}) =>
        visibleSequence(user1Nodes) = visibleSequence(user2Nodes)

\* C4: applying an operation a second time changes nothing, whatever the
\* operation (fresh insert, tombstone update, stale update, missing
\* predecessor), for both variants of applyOperation.
Idempotence ==
    \A op \in MergeOps :
        /\ applyOperation(applyOperation(user1Nodes, op), op)
              = applyOperation(user1Nodes, op)
        /\ applyOperationIndex(applyOperationIndex(user1Nodes, op), op)
              = applyOperationIndex(user1Nodes, op)

\* A tombstoned copy newer than its insert has been applied to the replica and
\* is pending for a repeated delivery; other operations would change the list.
IdempotenceWitness ==
    /\ \E cb \in BagToSet(timers) :
          /\ cb.node.removed
          /\ \E i \in 1..Len(user1Nodes) : user1Nodes[i] = cb.node
          /\ \E n \in inserted : n.id = cb.node.id /\ n.timestamp < cb.node.timestamp
    /\ \E op \in MergeOps : applyOperation(user1Nodes, op) # user1Nodes

\* C6: a node held removed with timestamp T stays removed with timestamp T when
\* any operation with its id and a timestamp <= T is applied.
TombstoneMonotonic ==
    \A i \in 1..Len(user1Nodes) :
        user1Nodes[i].removed =>
            \A op \in MergeOps :
                (op.id = user1Nodes[i].id /\ op.timestamp <= user1Nodes[i].timestamp) =>
                    \A after \in {applyOperation(user1Nodes, op),
                                   applyOperationIndex(user1Nodes, op)} :
                        /\ \E j \in 1..Len(after) : after[j].id = op.id
                        /\ \A j \in 1..Len(after) :
                              after[j].id = op.id =>
                                  /\ after[j].removed
                                  /\ after[j].timestamp = user1Nodes[i].timestamp

\* The replica holds a tombstone and the original insert of the same node, with
\* a timestamp that is not newer, is delivered to it.
TombstoneMonotonicWitness ==
    \E cb \in BagToSet(timers) :
        /\ ~cb.node.removed
        /\ \E i \in 1..Len(user1Nodes) :
              /\ user1Nodes[i].id = cb.node.id
              /\ user1Nodes[i].removed
              /\ cb.node.timestamp <= user1Nodes[i].timestamp
              /\ applyOperation(user1Nodes, cb.node) = user1Nodes

----------------------------------------------------------------------------
\* Properties of the running component.

HasNode(nodes, id) == FindIndex(nodes, id) # 0

\* The timestamp handleInsert gave the node.
InsertTimestamp(id) == (CHOOSE n \in inserted : n.id = id).timestamp

\* C2: online throughout, once no delivery is pending the two replicas show the
\* same visible sequence (checked for runs whose clock readings all differ and
\* in which no delivery was dropped: both replicas hold the same nodes).
OnlineConvergence ==
    (/\ ~isOffline
     /\ timers = EmptyBag
     /\ DistinctReadings
     /\ \A author \in Authors : \A i \in 1..Len(NodesOf(author)) :
            \E j \in 1..Len(NodesOf(Peer(author))) :
                NodesOf(Peer(author))[j] = NodesOf(author)[i]) =>
        visibleSequence(user1Nodes) = visibleSequence(user2Nodes)

\* The operations a replica holding `nodes` can be handed next: a fresh insert
\* after one of its nodes, or a tombstoned copy of one of its nodes, stamped
\* with a later reading of the clock.
LaterReadings == now..(MaxClock + 1)

FreshInserts(nodes) ==
    {[id |-> i, value |-> v, timestamp |-> t, previousId |-> p, removed |-> FALSE,
      author |-> a] :
        i \in {idCount + 1, idCount + 2}, v \in Chars, t \in LaterReadings,
        p \in Ids(nodes), a \in Authors}

TombstonedCopies(nodes) ==
    {[nodes[i] EXCEPT !.removed = TRUE, !.timestamp = t] :
        i \in 2..Len(nodes), t \in LaterReadings}

\* C3: two operations whose predecessors are in the list give the same list in
\* either order (checked for operations with different ids and timestamps).
Commutativity ==
    \A author \in Authors :
        LET state == NodesOf(author)
        IN  \A a, b \in FreshInserts(state) \cup TombstonedCopies(state) :
                (/\ a.id # b.id
                 /\ a.timestamp # b.timestamp
                 /\ HasNode(state, a.previousId)
                 /\ HasNode(state, b.previousId)) =>
                    applyOperation(applyOperation(state, a), b)
                        = applyOperation(applyOperation(state, b), a)

\* C5: in a final state, two inserts with the same previousId and timestamps
\* T1 < T2 that a replica holds are in its list with the T1 node first (checked
\* for runs whose clock readings all differ).
SiblingTieBreak ==
    (timers = EmptyBag /\ DistinctReadings) =>
        \A author \in Authors : \A s1, s2 \in inserted :
            (/\ s1.previousId = s2.previousId
             /\ s1.timestamp < s2.timestamp
             /\ HasNode(NodesOf(author), s1.id)
             /\ HasNode(NodesOf(author), s2.id)) =>
                FindIndex(NodesOf(author), s1.id) < FindIndex(NodesOf(author), s2.id)

\* C7: each replica has exactly one root, first in the list and not removed.
RootInvariant ==
    \A author \in Authors :
        LET nodes == NodesOf(author)
        IN  /\ Len(nodes) >= 1
            /\ nodes[1].id = RootId
            /\ ~nodes[1].removed
            /\ \A i \in 2..Len(nodes) : nodes[i].id # RootId

\* C8: every node but the root has its previousId node earlier in the same list.
CausalOrder ==
    \A author \in Authors :
        LET nodes == NodesOf(author)
        IN  \A i \in 1..Len(nodes) :
                nodes[i].id # RootId =>
                    \E j \in 1..(i - 1) : nodes[j].id = nodes[i].previousId

\* A replica holds, delivered from its peer, a node whose predecessor is not the root.
CausalOrderWitness ==
    \E author \in Authors :
        LET nodes == NodesOf(author)
        IN  \E i \in 1..Len(nodes) :
                /\ nodes[i].author = Peer(author)
                /\ nodes[i].previousId # RootId
                /\ nodes[i].previousId # NullId

\* C9: in every state, nodes with the same previousId are in ascending order of
\* their insert timestamps (checked for runs whose clock readings all differ).
SiblingOrder ==
    DistinctReadings => \A author \in Authors :
        LET nodes == NodesOf(author)
        IN  \A i, j \in 2..Len(nodes) :
                (i < j /\ nodes[i].previousId = nodes[j].previousId) =>
                    InsertTimestamp(nodes[i].id) <= InsertTimestamp(nodes[j].id)

\* C10: a node a replica holds keeps its value, author and previousId, stays
\* removed once removed, and its timestamp never decreases.
ForwardOnlyStep(nodes, nodesAfter) ==
    \A i \in 1..Len(nodes) : \A j \in 1..Len(nodesAfter) :
        nodes[i].id = nodesAfter[j].id =>
            /\ nodesAfter[j].value = nodes[i].value
            /\ nodesAfter[j].author = nodes[i].author
            /\ nodesAfter[j].previousId = nodes[i].previousId
            /\ nodes[i].removed => nodesAfter[j].removed
            /\ nodes[i].timestamp <= nodesAfter[j].timestamp

ForwardOnly ==
    [][DistinctReadings =>
          /\ ForwardOnlyStep(user1Nodes, user1Nodes')
          /\ ForwardOnlyStep(user2Nodes, user2Nodes')]_vars

----------------------------------------------------------------------------
\* The examples after the offline switch has sent each list to the other side.

\* The characters renderEditor shows.
visibleText(nodes) ==
    LET shown == SelectSeq(nodes, IsShown)
    IN  [i \in 1..Len(shown) |-> shown[i].value]

\* Online with no timer pending: every run of the offline watcher has delivered
\* both lists.
Merged == ~isOffline /\ timers = EmptyBag

Removed(nodes, id) == \E i \in 1..Len(nodes) : nodes[i].id = id /\ nodes[i].removed

\* C12: in the second example (replicas holding h1, id 104), after the merge the
\* visible sequence is empty on both replicas.
Scenario2Empty ==
    (Merged /\ HasNode(user1Nodes, 104)) =>
        /\ visibleText(user1Nodes) = <<>>
        /\ visibleText(user2Nodes) = <<>>

\* C12, amended: in the second example, after the merge the visible sequence is
\* the single character X on both replicas.
Scenario2ShowsX ==
    (Merged /\ HasNode(user1Nodes, 104)) =>
        /\ visibleText(user1Nodes) = <<"X">>
        /\ visibleText(user2Nodes) = <<"X">>

\* The second example merged: user2 has taken the tombstone of o from user1.
Scenario2ShowsXWitness ==
    Merged /\ HasNode(user2Nodes, 104) /\ Removed(user2Nodes, 108)

\* C13: in the second example, after the merge both replicas hold the five
\* letters of hello removed and X (id 109) not removed, directly after the
\* first l (id 106) at the same index.
Scenario2KeepsX ==
    (Merged /\ HasNode(user1Nodes, 104)) =>
        /\ \A author \in Authors :
              LET nodes == NodesOf(author)
              IN  /\ \A id \in 104..108 : Removed(nodes, id)
                  /\ HasNode(nodes, 109) /\ ~Removed(nodes, 109)
                  /\ FindIndex(nodes, 109) = FindIndex(nodes, 106) + 1
        /\ FindIndex(user1Nodes, 109) = FindIndex(user2Nodes, 109)

\* The second example merged: online, nothing pending, X delivered to user1.
Scenario2KeepsXWitness ==
    Merged /\ HasNode(user1Nodes, 104) /\ HasNode(user1Nodes, 109)

\* C14: in the third example (replicas holding a1, id 110), after the merge a,
\* b, c and d are removed on both replicas and the visible sequence is e.
Scenario3 ==
    (Merged /\ HasNode(user1Nodes, 110)) =>
        \A author \in Authors :
            /\ \A id \in 110..113 : Removed(NodesOf(author), id)
            /\ visibleText(NodesOf(author)) = <<"e">>

\* The third example merged: user1 has taken the tombstone of a from user2.
Scenario3Witness ==
    Merged /\ HasNode(user1Nodes, 110) /\ Removed(user1Nodes, 110)

\* C11: in the first example (replicas holding e2l2, id 101), after the merge
\* both replicas show h, 1, 2.
Scenario1 ==
    (Merged /\ HasNode(user1Nodes, 101)) =>
        /\ visibleText(user1Nodes) = <<"h", "1", "2">>
        /\ visibleText(user2Nodes) = <<"h", "1", "2">>

\* C15: the replicas were equal when the channel went offline, both were edited
\* offline and the channel is online again with every delivery of the watcher
\* fired: the two replicas show the same visible sequence (checked for runs
\* whose clock readings all differ).
ReconnectConvergence ==
    (Merged /\ DistinctReadings) =>
        visibleSequence(user1Nodes) = visibleSequence(user2Nodes)

\* The deliveries to `to` among the timers a step sets.
ScheduledTo(to) == {cb \in BagToSet(timers' (-) timers) : cb.to = to}

\* C16: on every step that takes isOffline from true to false, no pending timer
\* is dropped, exactly one delivery to the peer is set for every node of each
\* replica's list (root and tombstones included), and neither list changes.
FullReconciliation ==
    [][(isOffline /\ ~isOffline') =>
          /\ timers \sqsubseteq timers'
          /\ user1Nodes' = user1Nodes
          /\ user2Nodes' = user2Nodes
          /\ \A author \in Authors :
                /\ \A cb \in ScheduledTo(Peer(author)) :
                      CopiesIn(cb, timers' (-) timers) = 1
                /\ Cardinality(ScheduledTo(Peer(author))) = Len(NodesOf(author))
                /\ {cb.node : cb \in ScheduledTo(Peer(author))}
                      = {NodesOf(author)[i] : i \in 1..Len(NodesOf(author))}]_vars

\* Online, with the deliveries of one run of the watcher all pending, a
\* tombstone among them.
FullReconciliationWitness ==
    /\ ~isOffline
    /\ \E cb \in BagToSet(timers) :
          /\ cb.batch > 0
          /\ cb.node.removed
          /\ Cardinality({other \in BagToSet(timers) : other.batch = cb.batch})
                = Len(user1Nodes) + Len(user2Nodes)

\* C17: while isOffline stays true no step sets a timer, and a step in which
\* handleInsert or handleDelete ran leaves the timers and the list of the
\* other replica as they were.
OfflineGate ==
    [][(isOffline /\ isOffline') =>
          /\ timers' \sqsubseteq timers
          /\ (idCount' # idCount \/ delCount' # delCount) =>
                /\ timers' = timers
                /\ user1Nodes' = user1Nodes \/ user2Nodes' = user2Nodes
                /\ \A n \in inserted' \ inserted :
                      NodesOf(Peer(n.author))' = NodesOf(Peer(n.author))]_vars

\* Offline with nothing in flight: a node typed directly after the root is in
\* its author's list and not in the other one, which no dropped delivery
\* explains.
OfflineGateWitness ==
    /\ isOffline
    /\ timers = EmptyBag
    /\ \E n \in inserted :
          /\ n.previousId = RootId
          /\ HasNode(NodesOf(n.author), n.id)
          /\ ~HasNode(NodesOf(Peer(n.author)), n.id)

\* C18: the step that takes isOffline from false to true leaves every pending
\* timer pending, and a timer that fires while isOffline is true is applied: a
\* node the receiver lacks, whose predecessor it holds, is in the receiver's
\* list afterwards.
InFlightSurvives ==
    [][/\ (~isOffline /\ isOffline') => timers' = timers
       /\ \A cb \in BagToSet(timers) :
             (/\ isOffline
              /\ timers' = timers (-) SetToBag({cb})
              /\ cb.kind = "apply"
              /\ ~HasNode(NodesOf(cb.to), cb.node.id)
              /\ HasNode(NodesOf(cb.to), cb.node.previousId)) =>
                 HasNode(NodesOf(cb.to)', cb.node.id)]_vars

\* Offline with a delivery an edit set still pending, its node not yet in the
\* receiver's list.
InFlightSurvivesWitness ==
    /\ isOffline
    /\ \E cb \in BagToSet(timers) :
          /\ cb.batch = 0
          /\ cb.kind = "apply"
          /\ ~HasNode(NodesOf(cb.to), cb.node.id)
          /\ HasNode(NodesOf(cb.to), cb.node.previousId)

\* The edit's own delivery of node `id` to `to` is still pending.
EditPending(id, to) ==
    \E cb \in BagToSet(timers) : cb.batch = 0 /\ cb.to = to /\ cb.node.id = id

\* C19: while the channel stays online, a node its author holds that is absent
\* from the peer's list once the edit's own delivery has fired (it was dropped
\* there for its missing predecessor) is never delivered again: it is still
\* absent after every step.
NoRetry ==
    [][(~isOffline /\ ~isOffline') =>
          \A n \in inserted :
                (/\ HasNode(NodesOf(n.author), n.id)
                 /\ ~HasNode(NodesOf(Peer(n.author)), n.id)
                 /\ ~EditPending(n.id, Peer(n.author))) =>
                    ~HasNode(NodesOf(Peer(n.author))', n.id)]_vars

\* C20: an operation whose id is not in the list and whose previousId matches
\* no node of the list leaves the list as it is: same nodes, same order, a list
\* is returned (both applyOperation functions, every list a replica reaches).
UnresolvablePredecessor ==
    \A author \in Authors : \A op \in MergeOps :
        (/\ ~HasNode(NodesOf(author), op.id)
         /\ ~HasNode(NodesOf(author), op.previousId)) =>
            /\ applyOperation(NodesOf(author), op) = NodesOf(author)
            /\ applyOperationIndex(NodesOf(author), op) = NodesOf(author)

\* A delivery to user1 is pending whose node user1 lacks and whose predecessor,
\* not the root, user1 lacks as well.
UnresolvablePredecessorWitness ==
    \E cb \in BagToSet(timers) :
        /\ cb.to = "user1"
        /\ cb.node.previousId # RootId
        /\ ~HasNode(user1Nodes, cb.node.id)
        /\ ~HasNode(user1Nodes, cb.node.previousId)

----------------------------------------------------------------------------
\* Properties of the index handling of the editing handlers.

\* The number of characters a replica shows.
VisibleLength(author) == Len(visibleSequence(NodesOf(author)))

\* C21: with the cursor one past the last character of the issuer's visible
\* sequence, a step in which handleKeyDown ran handleInsert at the cursor, or
\* handleDelete at the position before it for a Backspace, leaves both lists,
\* the timers and the set of nodes ever built as they were (src/index.tsx).
OutOfRangeNoOp ==
    [][\A author \in Authors : \A t \in Clock(Index) :
          (/\ cursorPos[author] = VisibleLength(author) + 1
           /\ \/ \E value \in Chars :
                    handleInsertIndex(value, cursorPos[author], author, t,
                                      IndexBatches)
              \/ handleDeleteIndex(cursorPos[author] - 1, author, t,
                                   IndexBatches)) =>
              /\ user1Nodes' = user1Nodes
              /\ user2Nodes' = user2Nodes
              /\ timers' = timers
              /\ inserted' = inserted]_vars

\* `sub` holds exactly the nodes at the positions `kept` of `nodes`, in the
\* order of `nodes`.
IsFilterOf(sub, nodes, kept) ==
    /\ Len(sub) = Cardinality(kept)
    /\ \A i \in kept :
          sub[Cardinality({j \in kept : j <= i})] = nodes[i]

\* C22 as stated: visibleNodes of a replica's list holds exactly the nodes that
\* are neither tombstoned nor the root, in list order.
VisibleWithoutRoot ==
    \A author \in Authors :
        LET nodes == NodesOf(author)
        IN  IsFilterOf(visibleNodes(nodes), nodes,
                       {i \in 1..Len(nodes) :
                           ~nodes[i].removed /\ nodes[i].id # RootId})

\* C22 amended: visibleNodes of a replica's list holds exactly the nodes that
\* are not tombstoned, in list order; the root is not filtered out.
VisibleWithRoot ==
    \A author \in Authors :
        LET nodes == NodesOf(author)
        IN  /\ IsFilterOf(visibleNodes(nodes), nodes,
                          {i \in 1..Len(nodes) : ~nodes[i].removed})
            /\ \A k \in 1..Len(nodes) :
                  (nodes[k].id = RootId /\ ~nodes[k].removed) =>
                      \E i \in 1..Len(visibleNodes(nodes)) :
                          visibleNodes(nodes)[i] = nodes[k]

\* A replica holds the root, then a tombstone, then a character it shows.
VisibleWithRootWitness ==
    \E author \in Authors :
        LET nodes == NodesOf(author)
        IN  \E i, j \in 1..Len(nodes) :
                /\ i < j
                /\ nodes[1].id = RootId
                /\ nodes[i].removed
                /\ ~nodes[j].removed

\* The id index i stands for: the root's at 0, the i-th character shown's
\* otherwise.
PredecessorAt(nodes, i) ==
    IF i = 0 THEN RootId ELSE visibleSequence(nodes)[i].id

\* C23: findInsertPosition(i) is 'root' for i = 0 and the id of the i-th visible
\* non-root character for 0 < i <= n, in src/index.tsx and in part_001:42-45
\* (replicas whose first node is the untouched root).
CausalPositioning ==
    \A author \in Authors :
        LET nodes == NodesOf(author)
        IN  nodes[1] = rootNode =>
                \A i \in 0..VisibleLength(author) :
                    /\ findInsertPosition(i, nodes) = PredecessorAt(nodes, i)
                    /\ findInsertPositionV1(i, nodes) = PredecessorAt(nodes, i)

\* C24: a step in which handleDelete ran at a position that has a character
\* leaves the issuer's list with that node replaced, in place, by a copy that
\* differs in removed = true and the timestamp of the delete only, whatever the
\* clock returned (src/index.tsx).
LocalDelete ==
    [][\A author \in Authors : \A t \in Clock(Index) :
          \A position \in 0..(VisibleLength(author) - 1) :
              handleDeleteIndex(position, author, t, IndexBatches) =>
                  LET nodes == NodesOf(author)
                      target == visibleSequence(nodes)[position + 1]
                      k == FindIndex(nodes, target.id)
                  IN  /\ NodesOf(author)' =
                            [nodes EXCEPT ![k] =
                                [id |-> nodes[k].id, value |-> nodes[k].value,
                                 timestamp |-> t,
                                 previousId |-> nodes[k].previousId,
                                 removed |-> TRUE, author |-> nodes[k].author]]
                      /\ \A i \in 1..Len(visibleSequence(NodesOf(author)')) :
                            visibleSequence(NodesOf(author)')[i].id # target.id]_vars

\* The issuer's list after handleInsert(value, i, author, true) with a fresh id
\* and the clock at t.
AfterInsert(author, i, t) ==
    LocalUpdate(author,
                [id |-> idCount + 1, value |-> "a", timestamp |-> t,
                 previousId |-> findInsertPosition(i, NodesOf(author)),
                 removed |-> FALSE, author |-> author],
                TRUE)

\* The node handleDelete(i, author, true) picks in `nodes`.
DeleteTarget(nodes, i) == visibleNodes(nodes)[i + 2]

\* C25: whatever list a replica holds, a local insert at a visible index i from
\* 0 to the number of characters shown, with a later reading of the clock than
\* any before, followed at once by a local delete at the same index i, picks
\* the node just inserted as the node to tombstone.
IndexSymmetry ==
    \A author \in Authors :
        \A i \in 0..VisibleLength(author) :
            DeleteTarget(AfterInsert(author, i, now + 1), i).id = idCount + 1

----------------------------------------------------------------------------
\* Properties of the nodes the handlers build.

\* C26: two nodes inserted by different authors with the same previousId and
\* the same timestamp, once each replica holds both, are in the same relative
\* order in both lists.
EqualTimestampSiblings ==
    \A x, y \in inserted :
        (/\ x.id # y.id
         /\ x.author # y.author
         /\ x.previousId = y.previousId
         /\ x.timestamp = y.timestamp
         /\ \A author \in Authors :
               HasNode(NodesOf(author), x.id) /\ HasNode(NodesOf(author), y.id)) =>
            (FindIndex(user1Nodes, x.id) < FindIndex(user1Nodes, y.id)
                <=> FindIndex(user2Nodes, x.id) < FindIndex(user2Nodes, y.id))

\* C27: every node a step adds to the nodes built by handleInsert has the id of
\* a node of its author's list, as the list was before the step, for previousId.
PredecessorExists ==
    [][\A n \in inserted' \ inserted :
          HasNode(NodesOf(n.author), n.previousId)]_vars

\* A replica holds a node its user typed after a character received from the
\* peer.
PredecessorExistsWitness ==
    \E n, m \in inserted :
        /\ n.previousId = m.id
        /\ n.author # m.author
        /\ HasNode(NodesOf(n.author), n.id)

\* C28: no step (local insert, local delete, delivery) takes a node id out of a
\* replica's list.
NodesKept ==
    [][\A author \in Authors :
          Ids(NodesOf(author)) \subseteq Ids(NodesOf(author)')]_vars

\* Both replicas hold the tombstone of the same node.
NodesKeptWitness ==
    \E i \in 1..Len(user1Nodes) : \E j \in 1..Len(user2Nodes) :
        /\ user1Nodes[i].removed
        /\ user2Nodes[j] = user1Nodes[i]

----------------------------------------------------------------------------
\* Properties of applyOperation, branch by branch.

\* The length of the longest run of nodes directly after position p that all
\* have the previousId of op and a timestamp below op's.
SiblingRun(nodes, op, p) ==
    LET Older(m) == \A j \in 1..m :
                        /\ nodes[p + j].previousId = op.previousId
                        /\ nodes[p + j].timestamp < op.timestamp
    IN  CHOOSE m \in 0..(Len(nodes) - p) :
            Older(m) /\ (m < Len(nodes) - p => ~Older(m + 1))

\* `nodes` with op put directly after the run of older siblings that follows
\* its predecessor, at position p.
PlacedAfterRun(nodes, op, p) ==
    InsertAt(nodes, p + 1 + SiblingRun(nodes, op, p), op)

\* C29: both applyOperation functions (part_001:652-683 and src/index.tsx:51-76)
\* insert a fresh node at index p + 1 + k, k the length of the run of older
\* siblings after its predecessor, and keep the order of the other nodes.
FreshInsertPlacement ==
    \A op \in MergeOps :
        LET p == FindIndex(user1Nodes, op.previousId)
        IN  (~HasNode(user1Nodes, op.id) /\ p # 0) =>
                /\ applyOperation(user1Nodes, op) = PlacedAfterRun(user1Nodes, op, p)
                /\ applyOperationIndex(user1Nodes, op)
                      = PlacedAfterRun(user1Nodes, op, p)

\* C30: an operation whose id the list holds with a timestamp greater than or
\* equal to the operation's leaves the list as it is, whatever its removed flag
\* and its other fields (both applyOperation functions).
StaleDiscarded ==
    \A op \in MergeOps :
        (\E i \in 1..Len(user1Nodes) :
            /\ user1Nodes[i].id = op.id
            /\ user1Nodes[i].timestamp >= op.timestamp) =>
            /\ applyOperation(user1Nodes, op) = user1Nodes
            /\ applyOperationIndex(user1Nodes, op) = user1Nodes

\* user1 holds a node that is not tombstoned, and a tombstone of it with the
\* same timestamp is pending.
StaleDiscardedWitness ==
    \E cb \in BagToSet(timers) : \E i \in 1..Len(user1Nodes) :
        /\ cb.to = "user1"
        /\ user1Nodes[i].id = cb.node.id
        /\ user1Nodes[i].timestamp = cb.node.timestamp
        /\ ~user1Nodes[i].removed
        /\ cb.node.removed

----------------------------------------------------------------------------
\* C31: an operation handed to a replica (an insert or a tombstoned copy the
\* handlers built) whose id the list holds with a strictly smaller timestamp
\* gives a list of the same length that differs from the old one at the index
\* of that node only, where it holds the operation (both applyOperation
\* functions).
NewerReplacesInPlace ==
    \A cb \in BagToSet(timers) :
        LET op == cb.node
            k == FindIndex(user1Nodes, op.id)
        IN  (k # 0 /\ user1Nodes[k].timestamp < op.timestamp) =>
                /\ applyOperation(user1Nodes, op) = [user1Nodes EXCEPT ![k] = op]
                /\ applyOperationIndex(user1Nodes, op)
                      = [user1Nodes EXCEPT ![k] = op]

\* user1 holds a node that is not the last of its list, and a tombstoned copy of
\* it with a later timestamp is pending.
NewerReplacesInPlaceWitness ==
    \E cb \in BagToSet(timers) :
        LET k == FindIndex(user1Nodes, cb.node.id)
        IN  /\ cb.node.removed
            /\ k # 0
            /\ k < Len(user1Nodes)
            /\ ~user1Nodes[k].removed
            /\ user1Nodes[k].timestamp < cb.node.timestamp

\* The inserts a list that holds a tombstone at index i can be handed with that
\* tombstone for predecessor: an id the list lacks, any timestamp.
InsertsAfter(nodes, i) ==
    {[id |-> id, value |-> "a", timestamp |-> t, previousId |-> nodes[i].id,
      removed |-> FALSE, author |-> "user2"] :
        id \in (1..(ApplyInserts + 1)) \ Ids(nodes), t \in 0..ApplyClock}

\* `after` is `nodes` with op added at index k.
AddedAt(after, nodes, op, k) ==
    /\ k \in 1..Len(after)
    /\ after = InsertAt(nodes, k, op)

\* C32: an insert whose previousId is the id of a node the receiving list holds
\* tombstoned is added to the list, after the tombstone with nothing but
\* siblings of earlier timestamps between them, and is in the visible sequence
\* (both applyOperation functions).
TombstonePredecessor ==
    \A i \in 1..Len(user1Nodes) :
        user1Nodes[i].removed =>
            \A op \in InsertsAfter(user1Nodes, i) :
                \A after \in {applyOperation(user1Nodes, op),
                               applyOperationIndex(user1Nodes, op)} :
                    LET k == FindIndex(after, op.id)
                    IN  /\ AddedAt(after, user1Nodes, op, k)
                        /\ k > i
                        /\ \A j \in (i + 1)..(k - 1) :
                              /\ after[j].previousId = op.previousId
                              /\ after[j].timestamp < op.timestamp
                        /\ \E j \in 1..Len(visibleSequence(after)) :
                              visibleSequence(after)[j].id = op.id

\* user1 holds a tombstone and an insert after that tombstone is pending, which
\* user1 does not hold yet.
TombstonePredecessorWitness ==
    \E cb \in BagToSet(timers) : \E i \in 1..Len(user1Nodes) :
        /\ user1Nodes[i].removed
        /\ ~cb.node.removed
        /\ cb.node.previousId = user1Nodes[i].id
        /\ ~HasNode(user1Nodes, cb.node.id)

----------------------------------------------------------------------------
\* Properties of the editing handlers on the issuer's side.

\* `after` is `before` with one element, whose id is `id`, added at index k.
LandsAt(after, before, id, k) ==
    /\ Len(after) = Len(before) + 1
    /\ k \in 1..Len(after)
    /\ after[k].id = id
    /\ \A j \in 1..Len(before) :
          before[j] = after[IF j < k THEN j ELSE j + 1]

\* C33: a step in which handleInsert ran at a visible index i from 0 to the
\* number of characters shown leaves the new character at index i of the
\* issuer's visible sequence (the (i + 1)-th character), the characters shown
\* before in the order they had.
InsertAtCursor ==
    [][\A author \in Authors : \A t \in Clock(Small) :
          \A i \in 0..VisibleLength(author) :
              handleInsert("a", i, author, t) =>
                  LandsAt(visibleSequence(NodesOf(author)'),
                          visibleSequence(NodesOf(author)), idCount + 1, i + 1)]_vars

----------------------------------------------------------------------------
\* Properties of reordered deliveries.

\* C34: the insert of a node and a tombstoned copy of it are both pending for a
\* replica that lacks the node and holds its predecessor.  Delivering the
\* tombstone first and the insert second gives the list a delivery of the
\* insert alone gives, with the tombstoned copy in the place of the node: the
\* node once, removed, with the timestamp of the delete, where a fresh insert
\* puts it (both applyOperation functions; operation sets whose timestamps all
\* differ).
DeleteBeforeInsert ==
    DistinctReadings =>
        \A cbI, cbD \in BagToSet(timers) :
            LET ins == cbI.node
                del == cbD.node
                fresh == applyOperation(user1Nodes, ins)
                freshIndex == applyOperationIndex(user1Nodes, ins)
            IN  (/\ ins.id = del.id
                 /\ ~ins.removed
                 /\ del.removed
                 /\ ~HasNode(user1Nodes, ins.id)
                 /\ HasNode(user1Nodes, ins.previousId)) =>
                    /\ applyOperation(applyOperation(user1Nodes, del), ins)
                          = [fresh EXCEPT ![FindIndex(fresh, ins.id)] = del]
                    /\ applyOperationIndex(applyOperationIndex(user1Nodes, del), ins)
                          = [freshIndex EXCEPT ![FindIndex(freshIndex, ins.id)] = del]

----------------------------------------------------------------------------
\* Properties of every list a replica holds.

\* No id occurs at two positions of `nodes`.
DistinctIds(nodes) ==
    \A i, j \in 1..Len(nodes) : nodes[i].id = nodes[j].id => i = j

\* C35: no id occurs twice in a replica's list, whatever was delivered to it,
\* in whatever order and however often (edits, reordered deliveries, the
\* resends of the offline watcher); nor would it after any pending delivery
\* through the applyOperation of src/index.tsx.
UniqueIds ==
    /\ \A author \in Authors : DistinctIds(NodesOf(author))
    /\ \A cb \in BagToSet(timers) :
          DistinctIds(applyOperationIndex(NodesOf(cb.to), cb.node))

\* Online again: the watcher has resent a node to a replica that held it
\* already (the first resend of its run has fired and later ones are pending),
\* and a replica holds a typed node.
UniqueIdsWitness ==
    /\ ~isOffline
    /\ \E cb \in BagToSet(timers) :
          /\ cb.batch > 0
          /\ cb.seq > 1
          /\ HasNode(NodesOf(cb.to), cb.node.id)
          /\ \A other \in BagToSet(timers) :
                other.batch = cb.batch => other.seq >= cb.seq
    /\ \E author \in Authors : Len(NodesOf(author)) > 1

----------------------------------------------------------------------------
(***************************************************************************)
(* The component of src/index.tsx left to itself: online throughout, the   *)
(* users make finitely many edits and every timer set fires in the end.    *)
(* No bound is put on the runs of the watcher: each change of a list is    *)
(* followed by one, and each operation changes each list at most once.     *)
(***************************************************************************)
QuiesceInserts == 1
QuiesceDeletes == 1
QuiesceTimers == 3
QuiesceClock == 2

Quiesce ==
    [inserts |-> QuiesceInserts, deletes |-> QuiesceDeletes,
     timers |-> QuiesceTimers, clock |-> QuiesceClock,
     batches |-> 2 * (QuiesceInserts + QuiesceDeletes) + 1]

\* A timer that stays set after its callback has run, as setInterval leaves it.
ExpiredInterval(cb) == timers

\* setTimeout: the timer is gone once its callback has run.
Expired(cb) == timers (-) SetToBag({cb})

DeliverIndex(cb) ==
    LET nodes == RunCallback(cb, NodesOf(cb.to))
        nodes1 == IF cb.to = "user1" THEN nodes ELSE user1Nodes
        nodes2 == IF cb.to = "user2" THEN nodes ELSE user2Nodes
    IN  /\ BagIn(cb, timers)
        /\ Ready(cb)
        /\ user1Nodes' = nodes1
        /\ user2Nodes' = nodes2
        /\ timers' = Expired(cb)
                        (+) EffectIndex(nodes # NodesOf(cb.to), isOffline, nodes1, nodes2)
        /\ UNCHANGED <<cursorPos, isOffline, now, idCount, inserted, delCount>>

Deliveries == \E cb \in BagToSet(timers) : DeliverIndex(cb)

NextQuiesce ==
    \/ \E author \in Authors : InsertIndex(author, Quiesce)
    \/ \E author \in Authors : DeleteIndex(author, Quiesce)
    \/ Deliveries

SpecQuiesce == InitIndex /\ [][NextQuiesce]_vars /\ WF_vars(Deliveries)

\* C36: with the watcher running again after every change of a list, once the
\* users have stopped editing the pending deliveries run out and none is set
\* again.
Quiescence == <>[](timers = EmptyBag)

\* Nothing is pending, and both replicas hold a tombstone that one of them
\* received: the watcher has run after local and after remote changes.
QuiescenceWitness ==
    /\ timers = EmptyBag
    /\ \E i \in 1..Len(user1Nodes) : user1Nodes[i].removed
    /\ \E i \in 1..Len(user2Nodes) : user2Nodes[i].removed

----------------------------------------------------------------------------
(***************************************************************************)
(* The buttons that replace both lists (part_001, lines 961-975 and        *)
(* 1133-1139), pressed while the users edit.  The clock is past every      *)
(* timestamp of the examples, which were recorded before the component     *)
(* runs.                                                                   *)
(***************************************************************************)
ReplaceInserts == 1
ReplaceDeletes == 1
ReplaceTimers == 2
ReplaceClock == 1

\* A reading of the clock after the last timestamp of the examples (15411).
AfterExamples == 15412

Replace ==
    [inserts |-> ReplaceInserts, deletes |-> ReplaceDeletes,
     timers |-> ReplaceTimers, clock |-> AfterExamples + ReplaceClock]

\* Reset State: both lists are the root alone, the cursors are at 0; no timer
\* is cleared.
handleReset ==
    /\ user1Nodes' = <<rootNode>>
    /\ user2Nodes' = <<rootNode>>
    /\ cursorPos' = [user1 |-> 0, user2 |-> 0]
    /\ UNCHANGED <<isOffline, timers, now, idCount, inserted, delCount>>

\* Load Example: the channel goes offline, the lists are the example's; the
\* watcher runs for the change of isOffline and sends nothing.
LoadExample(k) ==
    /\ isOffline' = TRUE
    /\ user1Nodes' = examples[k].user1Nodes
    /\ user2Nodes' = examples[k].user2Nodes
    /\ cursorPos' = [user1 |-> Len(examples[k].user1Text) + 1,
                     user2 |-> Len(examples[k].user2Text) + 1]
    /\ UNCHANGED <<timers, now, idCount, inserted, delCount>>

InitReplace ==
    /\ user1Nodes = <<rootNode>>
    /\ user2Nodes = <<rootNode>>
    /\ cursorPos = [a \in Authors |-> 0]
    /\ isOffline = FALSE
    /\ timers = EmptyBag
    /\ now = AfterExamples
    /\ idCount = 0
    /\ inserted = {}
    /\ delCount = 0

NextReplace ==
    \/ Edits(Replace)
    \/ handleReset
    \/ \E k \in DOMAIN examples : LoadExample(k)

SpecReplace == InitReplace /\ [][NextReplace]_vars

\* Both lists are as Reset State or Load Example sets them.  The handlers
\* never build the ids of the examples, and a list an edit has changed holds a
\* node the handlers built: with a timer pending the replicas are in such a
\* state only after the button was pressed and before the next edit that
\* changes a list.
Replaced ==
    \/ user1Nodes = <<rootNode>> /\ user2Nodes = <<rootNode>>
    \/ \E k \in DOMAIN examples :
          /\ user1Nodes = examples[k].user1Nodes
          /\ user2Nodes = examples[k].user2Nodes

\* C37: a delivery that fires while both lists are as Reset State or Load
\* Example has set them leaves both lists as they are.
ReplacementStands ==
    [][\A cb \in BagToSet(timers) :
          (Replaced /\ TimerFires(cb)) =>
              /\ user1Nodes' = user1Nodes
              /\ user2Nodes' = user2Nodes]_vars

----------------------------------------------------------------------------
(***************************************************************************)
(* The key handler of part_001, lines 765-784 (src/index.tsx, lines        *)
(* 147-166, is the same code): the positions handleInsert and handleDelete *)
(* are called with come from the cursor.                                   *)
(***************************************************************************)
CursorInserts == 1
CursorDeletes == 1
CursorTimers == 2
CursorClock == 1

Cursor ==
    [inserts |-> CursorInserts, deletes |-> CursorDeletes,
     timers |-> CursorTimers, clock |-> AfterExamples + CursorClock]

KeyBackspace(author, lim) ==
    /\ cursorPos[author] > 0
    /\ delCount < lim.deletes
    /\ BagCardinality(timers) + 2 <= lim.timers
    /\ \E t \in Clock(lim) : handleDelete(cursorPos[author] - 1, author, t)

KeyChar(author, lim) ==
    /\ idCount < lim.inserts
    /\ BagCardinality(timers) + 1 <= lim.timers
    /\ \E value \in Chars, t \in Clock(lim) :
          handleInsert(value, cursorPos[author], author, t)

NextCursor ==
    \/ \E author \in Authors : KeyBackspace(author, Cursor)
    \/ \E author \in Authors : KeyArrowLeft(author)
    \/ \E author \in Authors : KeyArrowRight(author)
    \/ \E author \in Authors : KeyChar(author, Cursor)
    \/ \E k \in DOMAIN examples : LoadExample(k)
    \/ \E cb \in BagToSet(timers) : TimerFires(cb)

SpecCursor == InitReplace /\ [][NextCursor]_vars

\* C38: each cursor is between 0 and the number of characters its replica
\* shows.
CursorBound ==
    \A author \in Authors : cursorPos[author] \in 0..VisibleLength(author)

----------------------------------------------------------------------------
(***************************************************************************)
(* The two applyOperation functions side by side (part_001, lines 652-683, *)
(* and src/index.tsx, lines 51-76), on the lists a replica reaches from    *)
(* operation sets of their own size.                                       *)
(***************************************************************************)
AgreeInserts == 2
AgreeDeletes == 1
AgreeClock == 2

Agree == [inserts |-> AgreeInserts, deletes |-> AgreeDeletes, clock |-> AgreeClock]

InitAgree == OperationSets(Agree)

NextAgree == \E cb \in BagToSet(timers) : Redeliver(cb)

SpecAgree == InitAgree /\ [][NextAgree]_vars

\* op is a fresh insert and the node directly after its predecessor has the
\* previousId of op and a strictly smaller timestamp.
SiblingCase(nodes, op) ==
    LET p == FindIndex(nodes, op.previousId)
    IN  /\ ~HasNode(nodes, op.id)
        /\ p # 0
        /\ p < Len(nodes)
        /\ nodes[p + 1].previousId = op.previousId
        /\ nodes[p + 1].timestamp < op.timestamp

\* The list holds the id of op with a strictly smaller timestamp, and no node
\* of the list has the previousId of op for id.
UnplacedUpdate(nodes, op) ==
    LET k == FindIndex(nodes, op.id)
    IN  /\ k # 0
        /\ nodes[k].timestamp < op.timestamp
        /\ ~HasNode(nodes, op.previousId)

\* C39 as stated: on a list with the root first and every node after its
\* predecessor, the two applyOperation functions return the same list for
\* every operation outside the sibling case.
VariantsAgree ==
    (RootInvariant /\ CausalOrder) =>
        \A op \in MergeOps :
            ~SiblingCase(user1Nodes, op) =>
                applyOperation(user1Nodes, op) = applyOperationIndex(user1Nodes, op)

\* C39 amended: they return the same list for every operation outside the
\* sibling case that is not an update, strictly newer than the node held,
\* whose previousId is the id of no node of the list.
VariantsAgreePlaced ==
    (RootInvariant /\ CausalOrder) =>
        \A op \in MergeOps :
            (~SiblingCase(user1Nodes, op) /\ ~UnplacedUpdate(user1Nodes, op)) =>
                applyOperation(user1Nodes, op) = applyOperationIndex(user1Nodes, op)

\* A fresh insert is pending for user1, and the node directly after its
\* predecessor is a sibling that is not older: the edge of the sibling case.
VariantsAgreePlacedWitness ==
    \E cb \in BagToSet(timers) :
        LET p == FindIndex(user1Nodes, cb.node.previousId)
        IN  /\ ~HasNode(user1Nodes, cb.node.id)
            /\ p # 0
            /\ p < Len(user1Nodes)
            /\ user1Nodes[p + 1].previousId = cb.node.previousId
            /\ user1Nodes[p + 1].timestamp >= cb.node.timestamp

====
